---- MODULE Spec2Model ----
(***************************************************************************)
(* Model of the nlp-insights insight attachment and deduplication logic:   *)
(*   - the coding merge helpers of text_analytics/fhir_object_utils.py,    *)
(*   - the Condition / MedicationStatement derivation of                   *)
(*     nlp/acd/fhir_enrichment/insights/create_condition.py and            *)
(*     create_medication.py,                                               *)
(*   - the codeable concept enrichment of update_codeable_concepts.py.     *)
(*                                                                         *)
(* Python strings that the code splits, strips or parses are sequences of  *)
(* one-character strings; strings that are only compared are TLA+ strings. *)
(* A Python exception that leaves a call is recorded in status/exception.  *)
(***************************************************************************)
EXTENDS Integers, Sequences, FiniteSets, TLC

VARIABLES
    mode,           \* entry point exercised by this run: "condition", "medication",
                    \* "enrich", "coding" or "sources"
    nlp_config,     \* NlpConfig: [nlp_system, insight_id_start]
    acd_output,     \* ContainerAnnotation: attribute_values, concepts, medication_ind
    idx,            \* number of attribute_values the for loop has consumed
    tracker,        \* condition_tracker / med_statement_tracker, in insertion order
    status,         \* "running", "returned", "raised" or "bundled"
    exception,      \* name of the exception that left the call, "" if none
    result,         \* value returned by the call
    fhir_resource,  \* the given resource that the enrichment calls update
    concept_insights, \* List[AcdConceptRef] of the current enrichment call
    pidx,           \* number of concept_insights the call has consumed
    id_maker,       \* the id maker of the current enrichment call
    num_codes_added, \* num_codes_added of the current enrichment call
    calls,          \* number of enrichment calls started on fhir_resource
    call_start,     \* fhir_resource as it was when the current call started
    repeat,         \* the current call has the arguments of the previous one
    codeable_concept, \* the codeable concept the coding helpers are called on
    last_call,      \* the last coding helper call: its arguments, the coding before
                    \* it and the coding before the first call
    ops,            \* number of coding helper calls made on codeable_concept
    conditions,     \* create_new_resources_from_insights: the conditions derived
    bundle,         \* the Bundle returned by enrich_fhir_resource.py, None if none
    previous_result \* value returned by the previous run of the derivation call

derivation_vars == <<acd_output, idx, tracker>>
enrich_vars == <<fhir_resource, concept_insights, pidx, id_maker, num_codes_added,
                 calls, call_start, repeat>>
coding_vars == <<codeable_concept, last_call, ops>>
service_vars == <<conditions, bundle, previous_result>>
vars == <<mode, nlp_config, status, exception, result, derivation_vars, enrich_vars,
          coding_vars, service_vars>>

(***************************************************************************)
(* Bounds of the explored inputs.                                          *)
(***************************************************************************)
MaxAttrs == 3
MaxConcepts == 2
MaxAnnotations == 2

(***************************************************************************)
(* Python values.                                                          *)
(***************************************************************************)
\* None where a string is expected
None == <<"<None>">>
\* None where an object is expected
NoneRec == [none |-> TRUE]

\* str.split(sep) for a one-character separator
RECURSIVE SplitAcc(_, _, _, _)
SplitAcc(s, sep, cur, acc) ==
    IF s = <<>> THEN Append(acc, cur)
    ELSE IF Head(s) = sep THEN SplitAcc(Tail(s), sep, <<>>, Append(acc, cur))
    ELSE SplitAcc(Tail(s), sep, Append(cur, Head(s)), acc)

split(s, sep) == SplitAcc(s, sep, <<>>, <<>>)

\* truth value of an Optional[str]
Truthy(s) == s # None /\ s # <<>>

(***************************************************************************)
(* insight_constants                                                       *)
(***************************************************************************)
INSIGHT_CATEGORY_URL == "http://ibm.com/fhir/cdm/StructureDefinition/category"
INSIGHT_URL == "http://ibm.com/fhir/cdm/StructureDefinition/insight"
INSIGHT_ID_URL == "http://ibm.com/fhir/cdm/StructureDefinition/insight-id"
INSIGHT_DETAIL_URL == "http://ibm.com/fhir/cdm/StructureDefinition/insight-detail"
SNOMED_URL == "http://snomed.info/sct"
UMLS_URL == "http://terminology.hl7.org/CodeSystem/umls"
LOINC_URL == "http://loinc.org"
MESH_URL == "http://www.nlm.nih.gov/mesh/meshhome.html"
NCI_URL == "http://ncithesaurus.nci.nih.gov/ncitbrowser/"
ICD9_URL == "http://terminology.hl7.org/CodeSystem/icd9"
ICD10_URL == "https://terminology.hl7.org/CodeSystem/icd10"
RXNORM_URL == "http://www.nlm.nih.gov/research/umls/rxnorm"
TIMING_URL == "http://hl7.org/fhir/ValueSet/timing-abbreviation"
CLASSIFICATION_DERIVED_CODE == "natural-language-processing"
CLASSIFICATION_DERIVED_DISPLAY == "NLP"
CLASSIFICATION_DERIVED_SYSTEM == "http://ibm.com/fhir/cdm/CodeSystem/insight-category-code-system"

ANNOTATION_TYPE_ALLERGY == {"CDP-Allergy", "MedicationAllergy", "Diagnosis"}
ANNOTATION_TYPE_CONDITION == {"CDP-Condition"}
ANNOTATION_TYPE_IMMUNIZATION == {"CDP-Immunization"}
ANNOTATION_TYPE_MEDICATION == {"CDP-Medication"}

(***************************************************************************)
(* fhir_object_utils: codings.  A Coding is                                *)
(*   [system, code, display, extension]                                    *)
(* where extension is the list of the coding's extensions (<<>> for an     *)
(* absent list) and an extension is [url, coding], coding being the list   *)
(* valueCodeableConcept.coding.  A coding list that is None counts as [].  *)
(***************************************************************************)
\* exceptions that leave the modelled functions
AttributeErrorValueCodeableConcept ==
    "AttributeError: 'NoneType' object has no attribute 'valueCodeableConcept'"
AttributeErrorCui == "AttributeError: 'NoneType' object has no attribute 'cui'"
ValueErrorFloat == "ValueError: could not convert string to float"
AttributeErrorJson == "AttributeError: 'MedicationAnnotation' object has no attribute 'json'"

\* result of a helper that raised
Raised(name) == [raised |-> TRUE, exc |-> name]

find_codings(coding, system, code) ==
    SelectSeq(coding, LAMBDA c : c.system = system /\ c.code = code)

\* first extension with the url, NoneRec if there is none
_get_extension(element, extension_url) ==
    LET hits == SelectSeq(element.extension, LAMBDA e : e.url = extension_url)
    IN  IF hits = <<>> THEN NoneRec ELSE Head(hits)

create_derived_by_nlp_extension ==
    [url |-> INSIGHT_CATEGORY_URL,
     coding |-> << [system |-> CLASSIFICATION_DERIVED_SYSTEM,
                    code |-> CLASSIFICATION_DERIVED_CODE,
                    display |-> CLASSIFICATION_DERIVED_DISPLAY] >>,
     text |-> CLASSIFICATION_DERIVED_DISPLAY]

\* the extension, NoneRec, or Raised(AttributeError...) when the element has
\* no category extension (extension is None and is dereferenced)
get_derived_by_nlp_extension(element) ==
    LET check(extension) ==
            IF extension = NoneRec THEN Raised(AttributeErrorValueCodeableConcept)
            ELSE IF \E i \in 1..Len(extension.coding) :
                        /\ extension.coding[i].system = CLASSIFICATION_DERIVED_SYSTEM
                        /\ extension.coding[i].code = CLASSIFICATION_DERIVED_CODE
                 THEN extension
                 ELSE NoneRec
    IN  check(_get_extension(element, INSIGHT_CATEGORY_URL))

create_coding(system, code, display, derived_by_nlp) ==
    [system |-> system,
     code |-> code,
     display |-> IF Truthy(display) THEN display ELSE None,
     extension |-> IF derived_by_nlp THEN <<create_derived_by_nlp_extension>> ELSE <<>>]

\* variant: the coding is appended whatever the list holds
append_coding_Always(coding, system, code, display) ==
    Append(coding, create_coding(system, code, display, FALSE))

\* variant: only entries without extension count as existing
append_coding_PlainOnly(coding, system, code, display) ==
    IF SelectSeq(find_codings(coding, system, code),
                 LAMBDA c : c.extension = <<>>) = <<>>
    THEN Append(coding, create_coding(system, code, display, FALSE))
    ELSE coding

\* the coding list after append_coding
append_coding(coding, system, code, display) ==
    IF find_codings(coding, system, code) = <<>>
    THEN Append(coding, create_coding(system, code, display, FALSE))
    ELSE coding

\* any(get_derived_by_nlp_extension(c) for c in existing): evaluated left to
\* right, stops at the first truthy value, and an exception leaves it
RECURSIVE AnyDerived(_)
AnyDerived(existing) ==
    LET next(e) ==
            IF e = Raised(AttributeErrorValueCodeableConcept) THEN e
            ELSE IF e # NoneRec THEN [raised |-> FALSE, value |-> TRUE]
            ELSE AnyDerived(Tail(existing))
    IN  IF existing = <<>> THEN [raised |-> FALSE, value |-> FALSE]
        ELSE next(get_derived_by_nlp_extension(Head(existing)))

\* variant: a new derived coding is put in front of the list
append_derived_by_nlp_coding_Front(coding, system, code, display) ==
    [raised |-> FALSE, exc |-> "",
     coding |-> IF \E i \in 1..Len(coding) :
                      /\ coding[i].system = system
                      /\ coding[i].code = code
                      /\ coding[i].extension # <<>>
                THEN coding
                ELSE <<create_coding(system, code, display, TRUE)>> \o coding]

\* variant: the derived coding is appended whatever the list holds
append_derived_by_nlp_coding_Always(coding, system, code, display) ==
    [raised |-> FALSE, exc |-> "",
     coding |-> Append(coding, create_coding(system, code, display, TRUE))]

\* [raised, exc, coding]: the coding list after the call
append_derived_by_nlp_coding(coding, system, code, display) ==
    LET decide(existing_codings, any) ==
            IF any.raised
            THEN [raised |-> TRUE, exc |-> any.exc, coding |-> coding]
            ELSE IF existing_codings # <<>> /\ any.value
            THEN [raised |-> FALSE, exc |-> "", coding |-> coding]
            ELSE [raised |-> FALSE, exc |-> "",
                  coding |-> Append(coding, create_coding(system, code, display, TRUE))]
    IN  decide(find_codings(coding, system, code),
               AnyDerived(find_codings(coding, system, code)))

\* value returned by append_derived_by_nlp_coding to its callers in
\* update_codeable_concepts.py: whether an append occurred, as a count
append_derived_by_nlp_coding_count(before, after) ==
    IF Len(after) > Len(before) THEN 1 ELSE 0

(***************************************************************************)
(* fhir_object_utils: insights in meta.  A resource keeps meta.extension   *)
(* in meta_extension; an absent meta or list counts as the empty list.     *)
(***************************************************************************)
create_insight_id_extension(insight_id_value, insight_system) ==
    [url |-> INSIGHT_ID_URL,
     valueIdentifier |-> [system |-> insight_system, value |-> insight_id_value]]

create_insight_span_extension(span) ==
    [url |-> "http://ibm.com/fhir/cdm/StructureDefinition/span",
     covered_text |-> span.covered_text,
     offset_begin |-> span.begin,
     offset_end |-> span.end]

create_derived_from_unstructured_insight_detail_extension(source, nlp_extensions) ==
    [url |-> INSIGHT_DETAIL_URL,
     extension |-> nlp_extensions \o
         << [url |-> "http://ibm.com/fhir/cdm/StructureDefinition/reference",
             valueReference |-> source.reference],
            [url |-> "http://ibm.com/fhir/cdm/StructureDefinition/insight-result",
             extension |-> <<create_insight_span_extension(source.text_span)>>] >>]

\* variant: the new insight node replaces the ones found in meta
add_insight_to_meta_Overwrite(resource, insight_id, insight_detail) ==
    [resource EXCEPT !.meta_extension =
        <<[url |-> INSIGHT_URL, extension |-> <<insight_id, insight_detail>>]>>]

add_insight_to_meta(resource, insight_id, insight_detail) ==
    [resource EXCEPT !.meta_extension =
        Append(@, [url |-> INSIGHT_URL, extension |-> <<insight_id, insight_detail>>])]

\* variant: one classification extension for every insight of the resource
append_derived_by_nlp_extension_PerInsight(resource) ==
    [resource EXCEPT !.extension =
        @ \o [k \in 1..Len(resource.meta_extension) |-> create_derived_by_nlp_extension]]

\* resource-level classification extension; does not check for an existing one
append_derived_by_nlp_extension(resource) ==
    [resource EXCEPT !.extension = Append(@, create_derived_by_nlp_extension)]

(***************************************************************************)
(* nlp_config                                                              *)
(***************************************************************************)
\* NlpConfig.create_nlp_output_extension with acd_get_nlp_output_loc
create_nlp_output_extension ==
    [url |-> "http://ibm.com/fhir/cdm/StructureDefinition/evaluated-output",
     valueReference |-> "uri://path/acd-123.json"]

(***************************************************************************)
(* insight_id_maker(start): a generator of "insight-<n>", n = start,       *)
(* start+1, ...  The generator state is the number it yields next.         *)
(***************************************************************************)
\* variant: one numbering shared by the runs of a call
insight_id_maker_Shared(start) ==
    [next_num |-> IF previous_result = NoneRec THEN start ELSE start + 1]

insight_id_maker(start) == [next_num |-> start]

InsightIdString(n) == "insight-" \o ToString(n)

\* next(id_maker): the id yielded and the generator afterwards
next_id(maker) ==
    [value |-> InsightIdString(maker.next_num),
     id_maker |-> [next_num |-> maker.next_num + 1]]

(***************************************************************************)
(* acd_utils.filter_attribute_values keeps the attributes whose name is in *)
(* values, in input order.                                                 *)
(***************************************************************************)
filter_attribute_values(attribute_values, values) ==
    SelectSeq(attribute_values, LAMBDA attr : attr.name \in values)

(***************************************************************************)
(* create_condition.py                                                     *)
(***************************************************************************)
\* variant: falls back to the first concept when no uid matches
_get_concept_for_attribute_Fallback(attr, concepts) ==
    LET hits == SelectSeq(concepts, LAMBDA c : c.uid = attr.concept_uid)
    IN  IF hits = <<>> THEN Head(concepts) ELSE Head(hits)

\* first concept with the uid of the attribute, NoneRec if there is none
_get_concept_for_attribute(attr, concepts) ==
    LET hits == SelectSeq(concepts, LAMBDA c : c.uid = attr.concept_uid)
    IN  IF hits = <<>> THEN NoneRec ELSE Head(hits)

\* _append_coding_entries: one append_coding per code of the csv string
RECURSIVE AppendCodingList(_, _, _)
AppendCodingList(coding, system, codes) ==
    IF codes = <<>> THEN coding
    ELSE AppendCodingList(append_coding(coding, system, Head(codes), None),
                          system, Tail(codes))

\* variant: the csv string is appended as one code
_append_coding_entries_Unsplit(coding, system, csv_ids) ==
    append_coding(coding, system, csv_ids, None)

_append_coding_entries(coding, system, csv_ids) ==
    AppendCodingList(coding, system, split(csv_ids, ","))

\* one step of add_codings for a terminology field
AddField(coding, system, field) ==
    IF Truthy(field) THEN _append_coding_entries(coding, system, field) ELSE coding

\* the coding list of codeable_concept after add_codings(concept, codeable_concept)
add_codings(concept, coding) ==
    LET c0 == IF concept.cui # None
              THEN append_coding(coding, UMLS_URL, concept.cui, concept.preferred_name)
              ELSE coding
        c1 == AddField(c0, SNOMED_URL, concept.snomed_concept_id)
        c2 == AddField(c1, NCI_URL, concept.nci_code)
        c3 == AddField(c2, LOINC_URL, concept.loinc_id)
        c4 == AddField(c3, MESH_URL, concept.mesh_id)
        c5 == AddField(c4, ICD9_URL, concept.icd9_code)
        c6 == AddField(c5, ICD10_URL, concept.icd10_code)
    IN  AddField(c6, RXNORM_URL, concept.rx_norm_id)

_add_insight_codings_to_condition(condition, concept) ==
    LET code == IF condition.code = NoneRec
                THEN [text |-> concept.preferred_name, coding |-> <<>>]
                ELSE condition.code
    IN  [condition EXCEPT !.code = [code EXCEPT !.coding = add_codings(concept, @)]]

TextFragment(attr) ==
    [reference |-> "DiagnosticReport/12345",
     text_span |-> [begin |-> attr.begin, end |-> attr.end,
                    covered_text |-> attr.covered_text]]

_add_insight_to_condition(condition, attr, concept, insight_id_string) ==
    LET insight_id_ext == create_insight_id_extension(insight_id_string,
                                                      nlp_config.nlp_system)
        detail == create_derived_from_unstructured_insight_detail_extension(
                      TextFragment(attr), <<create_nlp_output_extension>>)
    IN  _add_insight_codings_to_condition(
            add_insight_to_meta(condition, insight_id_ext, detail), concept)

\* position of the tracker entry of a key, 0 if the key is not tracked
TrackerIndex(trk, cui) ==
    IF \E i \in 1..Len(trk) : trk[i].cui = cui
    THEN CHOOSE i \in 1..Len(trk) : trk[i].cui = cui
    ELSE 0

NewCondition ==
    [resourceType |-> "Condition", subject |-> "Patient/1", code |-> NoneRec,
     meta_extension |-> <<>>, extension |-> <<>>]

\* variant: a resource is created for every attribute, tracked or not
Track_NoDedup(trk, cui, new_resource) ==
    Append(trk, [cui |-> cui, fhir_resource |-> new_resource,
                 id_maker |-> insight_id_maker(nlp_config.insight_id_start)])

\* variant: one insight counter runs over all resources of the call
Track_SharedCounter(trk, cui, new_resource) ==
    IF \A i \in 1..Len(trk) : trk[i].cui # cui
    THEN Append(trk, [cui |-> cui, fhir_resource |-> new_resource,
                      id_maker |-> insight_id_maker(nlp_config.insight_id_start
                                                    + Len(trk))])
    ELSE trk

\* variant: a new key is put in front of the keys tracked so far
Track_NewestFirst(trk, cui, new_resource) ==
    IF \A i \in 1..Len(trk) : trk[i].cui # cui
    THEN <<[cui |-> cui, fhir_resource |-> new_resource,
            id_maker |-> insight_id_maker(nlp_config.insight_id_start)]>> \o trk
    ELSE trk

\* the tracker after "if key not in tracker: tracker[key] = TrackerEntry(...)"
Track(trk, cui, new_resource) ==
    IF TrackerIndex(trk, cui) = 0
    THEN Append(trk, [cui |-> cui, fhir_resource |-> new_resource,
                      id_maker |-> insight_id_maker(nlp_config.insight_id_start)])
    ELSE trk

\* body of the for loop of create_conditions_from_insights for one attribute
ConditionLoopBody(trk, attr) ==
    LET numbered(concept, t1, i, nx) ==
            [t1 EXCEPT ![i] =
               [cui |-> concept.cui,
                fhir_resource |-> _add_insight_to_condition(
                    t1[i].fhir_resource, attr, concept, nx.value),
                id_maker |-> nx.id_maker]]
        tracked(concept, t1, i) == numbered(concept, t1, i, next_id(t1[i].id_maker))
        entered(concept, t1) == tracked(concept, t1, TrackerIndex(t1, concept.cui))
        found(concept) ==
            IF concept = NoneRec THEN trk
            ELSE entered(concept, Track(trk, concept.cui, NewCondition))
    IN  found(_get_concept_for_attribute(attr, acd_output.concepts))

\* "if acd_attrs and acd_concepts"
ConditionLoopEntered ==
    acd_output.attribute_values # <<>> /\ acd_output.concepts # <<>>

\* the for loop takes the next attribute of acd_output.attribute_values
ConditionStep ==
    /\ mode = "condition"
    /\ status = "running"
    /\ ConditionLoopEntered
    /\ idx < Len(acd_output.attribute_values)
    /\ LET attr == acd_output.attribute_values[idx + 1]
       IN  tracker' = IF attr.name \in ANNOTATION_TYPE_CONDITION
                      THEN ConditionLoopBody(tracker, attr)
                      ELSE tracker
    /\ idx' = idx + 1
    /\ UNCHANGED <<mode, nlp_config, service_vars, acd_output, status, exception, result, enrich_vars,
                   coding_vars>>

\* the list of tracked resources with the derived extension appended
TrackedResources(trk) ==
    [i \in 1..Len(trk) |-> append_derived_by_nlp_extension(trk[i].fhir_resource)]

\* variant: the not-found signal is returned when resources were tracked
DerivationResult_Inverted(trk) ==
    IF trk # <<>> THEN [none |-> TRUE, value |-> <<>>]
    ELSE [none |-> FALSE, value |-> TrackedResources(trk)]

\* value returned after the loop
DerivationResult(trk) ==
    IF trk = <<>> THEN [none |-> TRUE, value |-> <<>>]
    ELSE [none |-> FALSE, value |-> TrackedResources(trk)]

ConditionReturn ==
    /\ mode = "condition"
    /\ status = "running"
    /\ ~ConditionLoopEntered \/ idx = Len(acd_output.attribute_values)
    /\ result' = DerivationResult(tracker)
    /\ status' = "returned"
    /\ UNCHANGED <<mode, nlp_config, service_vars, acd_output, idx, tracker, exception, enrich_vars,
                   coding_vars>>

(***************************************************************************)
(* create_medication.py.  A MedicationAnnotation is                        *)
(*   [uid, cui, drug, administration]                                      *)
(* drug: [shape, name] where shape tells how far annotation.drug[0]        *)
(* .get("name1")[0] can be followed and name is the dictionary found there;*)
(* administration: <<>> when the annotation has no such attribute, else    *)
(* the list of dictionaries [dosageValue, frequencyValue].                 *)
(***************************************************************************)
\* None for a frequency string (frequencies are only compared, never split)
NoneStr == "<None>"

\* a drug dictionary without any key
EmptyDrug == [cui |-> None, drugSurfaceForm |-> None, rxNormID |-> None]

\* first annotation with the uid of the attribute, NoneRec if there is none
_get_annotation_for_attribute(attr, acd_annotations) ==
    LET hits == SelectSeq(acd_annotations, LAMBDA a : a.uid = attr.concept_uid)
    IN  IF hits = <<>> THEN NoneRec ELSE Head(hits)

\* TypeError, IndexError and AttributeError are caught and give {}
_get_drug_from_annotation(annotation) ==
    IF annotation.drug.shape = "ok" THEN annotation.drug.name ELSE EmptyDrug

_create_minimum_medication_statement(annotation) ==
    LET acd_drug == _get_drug_from_annotation(annotation)
    IN  [resourceType |-> "MedicationStatement", subject |-> "Patient/1",
         medicationCodeableConcept |->
             [text |-> acd_drug.drugSurfaceForm, coding |-> <<>>],
         status |-> "unknown", meta_extension |-> <<>>, extension |-> <<>>,
         dosage |-> <<>>]

_add_codings_drug(acd_drug, coding) ==
    LET rx(c0) ==
            IF acd_drug.rxNormID # None
            THEN AppendCodingList(c0, RXNORM_URL, split(acd_drug.rxNormID, ","))
            ELSE c0
    IN  rx(IF acd_drug.cui # None
           THEN append_coding(coding, UMLS_URL, acd_drug.cui, acd_drug.drugSurfaceForm)
           ELSE coding)

DigitChars == <<"0", "1", "2", "3", "4", "5", "6", "7", "8", "9">>
IsDigit(c) == \E d \in 1..10 : DigitChars[d] = c
DigitValue(c) == (CHOOSE d \in 1..10 : DigitChars[d] = c) - 1

RECURSIVE DigitsValue(_, _)
DigitsValue(s, acc) ==
    IF s = <<>> THEN acc ELSE DigitsValue(Tail(s), 10 * acc + DigitValue(Head(s)))

\* float(amount) on strings of digits, letters other than e/E, "," and " ":
\* a non-empty string of digits is its value, anything else is a ValueError
float(amount) ==
    IF amount # <<>> /\ \A i \in 1..Len(amount) : IsDigit(amount[i])
    THEN [raised |-> FALSE, value |-> DigitsValue(amount, 0)]
    ELSE Raised(ValueErrorFloat)

\* str.replace(",", "")
RemoveCommas(s) == SelectSeq(s, LAMBDA c : c # ",")

HasSpace(s) == \E i \in 1..Len(s) : s[i] = " "

\* [raised, exc, dose_amount, dose_units] of a dosageValue string, dose_amount
\* being NoneRec or [value |-> number]; only
\* OverflowError is caught around float(), which float() of a string never
\* raises, so a ValueError leaves the function
ParseDose(dose_with_units) ==
    LET converted(dose_info, f) ==
            IF f.raised
            THEN [raised |-> TRUE, exc |-> f.exc, dose_amount |-> NoneRec,
                  dose_units |-> None]
            ELSE [raised |-> FALSE, exc |-> "", dose_amount |-> [value |-> f.value],
                  dose_units |-> IF HasSpace(dose_with_units) THEN dose_info[2]
                                 ELSE None]
        parse(dose_info) ==
            converted(dose_info,
                      float(IF HasSpace(dose_with_units)
                            THEN RemoveCommas(dose_info[1])
                            ELSE RemoveCommas(dose_with_units)))
    IN  parse(split(dose_with_units, " "))

\* variant: a frequency without code still gets a timing that keeps its text
TimingFor_KeepText(frequency) ==
    IF frequency \in {"Q AM", "Q AM.", "AM"}
    THEN [code |-> [coding |-> <<create_coding(TIMING_URL, "AM", <<"AM">>, FALSE)>>,
                    text |-> frequency]]
    ELSE IF frequency \in {"Q PM", "Q PM.", "PM"}
    THEN [code |-> [coding |-> <<create_coding(TIMING_URL, "PM", <<"PM">>, FALSE)>>,
                    text |-> frequency]]
    ELSE IF frequency # NoneStr
    THEN [code |-> [coding |-> <<>>, text |-> frequency]]
    ELSE NoneRec

\* the timing of a dose for a frequencyValue, NoneRec when none is built
TimingFor(frequency) ==
    LET code == IF frequency \in {"Q AM", "Q AM.", "AM"} THEN "AM"
                ELSE IF frequency \in {"Q PM", "Q PM.", "PM"} THEN "PM"
                ELSE NoneStr
    IN  IF frequency # NoneStr /\ code # NoneStr
        THEN [code |-> [coding |-> <<create_coding(TIMING_URL, code, <<code>>, FALSE)>>,
                        text |-> frequency]]
        ELSE NoneRec

\* the Dosage built for a parsed dosageValue and the frequencyValue
BuildDose(parsed, frequency) ==
    [doseAndRate |->
        IF parsed.dose_amount # NoneRec
        THEN << [doseQuantity |-> [value |-> parsed.dose_amount.value,
                                   unit |-> parsed.dose_units]] >>
        ELSE <<>>,
     timing |-> TimingFor(frequency)]

\* [raised, exc, med_statement] after the call
_update_codings_and_administration_info(med_statement, annotation) ==
    LET dosed(m1, parsed) ==
            IF parsed.raised
            THEN [raised |-> TRUE, exc |-> parsed.exc, med_statement |-> m1]
            ELSE [raised |-> FALSE, exc |-> "",
                  med_statement |->
                     [m1 EXCEPT !.dosage = Append(@,
                         BuildDose(parsed,
                             annotation.administration[1].frequencyValue))]]
        coded(m1) ==
            IF annotation.administration = <<>>
               \/ annotation.administration[1].dosageValue = None
            THEN [raised |-> FALSE, exc |-> "", med_statement |-> m1]
            ELSE dosed(m1, ParseDose(annotation.administration[1].dosageValue))
    IN  coded([med_statement EXCEPT !.medicationCodeableConcept.coding =
                  _add_codings_drug(_get_drug_from_annotation(annotation), @)])

\* [raised, exc, med_statement] after the call
_add_insight_to_medication_statement(med_statement, attr, medInd, insight_id_string) ==
    LET insight_id_ext == create_insight_id_extension(insight_id_string,
                                                      nlp_config.nlp_system)
        detail == create_derived_from_unstructured_insight_detail_extension(
                      TextFragment(attr), <<create_nlp_output_extension>>)
    IN  _update_codings_and_administration_info(
            add_insight_to_meta(med_statement, insight_id_ext, detail), medInd)

\* body of the for loop of create_med_statements_from_insights for one
\* attribute: [raised, exc, tracker]
MedicationLoopBody(trk, attr) ==
    LET updated(medInd, t1, i, nx, upd) ==
            [raised |-> upd.raised, exc |-> upd.exc,
             tracker |-> [t1 EXCEPT ![i] =
                             [cui |-> medInd.cui,
                              fhir_resource |-> upd.med_statement,
                              id_maker |-> nx.id_maker]]]
        numbered(medInd, t1, i, nx) ==
            updated(medInd, t1, i, nx,
                    _add_insight_to_medication_statement(
                        t1[i].fhir_resource, attr, medInd, nx.value))
        tracked(medInd, t1, i) == numbered(medInd, t1, i, next_id(t1[i].id_maker))
        entered(medInd, t1) == tracked(medInd, t1, TrackerIndex(t1, medInd.cui))
        found(medInd) ==
            IF medInd = NoneRec
            THEN [raised |-> TRUE, exc |-> AttributeErrorCui, tracker |-> trk]
            ELSE entered(medInd,
                         Track(trk, medInd.cui,
                               _create_minimum_medication_statement(medInd)))
    IN  found(_get_annotation_for_attribute(attr, acd_output.medication_ind))

\* the except handler of _get_drug_from_annotation builds its log record
\* with annotation.json(indent=2).  MedicationAnnotation is a class of
\* ibm_whcs_sdk, outside the repository: where it has no json method the
\* handler itself raises AttributeError, which nothing catches.  The set
\* holds that outcome of the loop body for an annotation whose drug
\* structure cannot be followed: the first call for a new key is made
\* before the key is tracked, for a tracked key after the insight was added
DrugLogFailure(trk, attr) ==
    LET partial(medInd, i) ==
            IF i = 0 THEN trk
            ELSE [trk EXCEPT ![i] =
                    [cui |-> medInd.cui,
                     fhir_resource |-> add_insight_to_meta(
                         trk[i].fhir_resource,
                         create_insight_id_extension(next_id(trk[i].id_maker).value,
                                                     nlp_config.nlp_system),
                         create_derived_from_unstructured_insight_detail_extension(
                             TextFragment(attr), <<create_nlp_output_extension>>)),
                     id_maker |-> next_id(trk[i].id_maker).id_maker]]
        failed(medInd) ==
            IF medInd # NoneRec /\ medInd.drug.shape # "ok"
            THEN { [raised |-> TRUE, exc |-> AttributeErrorJson,
                    tracker |-> partial(medInd, TrackerIndex(trk, medInd.cui))] }
            ELSE {}
    IN  failed(_get_annotation_for_attribute(attr, acd_output.medication_ind))

\* "if acd_attrs and acd_output.medication_ind"
MedicationLoopEntered ==
    acd_output.attribute_values # <<>> /\ acd_output.medication_ind # <<>>

\* the for loop takes the next attribute of acd_output.attribute_values
MedicationStep ==
    /\ mode = "medication"
    /\ status = "running"
    /\ MedicationLoopEntered
    /\ idx < Len(acd_output.attribute_values)
    /\ IF acd_output.attribute_values[idx + 1].name \notin ANNOTATION_TYPE_MEDICATION
       THEN /\ idx' = idx + 1
            /\ UNCHANGED <<tracker, status, exception>>
       ELSE \E body \in { MedicationLoopBody(tracker,
                                acd_output.attribute_values[idx + 1]) }
                          \cup DrugLogFailure(tracker,
                                acd_output.attribute_values[idx + 1]) :
               IF body.raised
               THEN /\ tracker' = body.tracker
                    /\ status' = "raised"
                    /\ exception' = body.exc
                    /\ UNCHANGED idx
               ELSE /\ tracker' = body.tracker
                    /\ idx' = idx + 1
                    /\ UNCHANGED <<status, exception>>
    /\ UNCHANGED <<mode, nlp_config, service_vars, acd_output, result, enrich_vars,
                   coding_vars>>

MedicationReturn ==
    /\ mode = "medication"
    /\ status = "running"
    /\ ~MedicationLoopEntered \/ idx = Len(acd_output.attribute_values)
    /\ result' = DerivationResult(tracker)
    /\ status' = "returned"
    /\ UNCHANGED <<mode, nlp_config, service_vars, acd_output, idx, tracker, exception, enrich_vars,
                   coding_vars>>

(***************************************************************************)
(* update_codeable_concepts.py.  The given resource is                     *)
(*   [resourceType, id, concepts, meta_extension]                          *)
(* concepts maps the FHIR path of each codeable concept of the resource to *)
(* [text, coding]; an AcdConceptRef is [fhir_path, acd_response], its      *)
(* code_ref being the codeable concept of the resource at fhir_path.       *)
(***************************************************************************)
\* variant: a resource of any other kind is treated as a Condition
_get_acd_attr_types_Default(resource) ==
    IF resource.resourceType = "AllergyIntolerance" THEN ANNOTATION_TYPE_ALLERGY
    ELSE IF resource.resourceType = "Immunization" THEN ANNOTATION_TYPE_IMMUNIZATION
    ELSE ANNOTATION_TYPE_CONDITION

\* the relevant attribute names, {} standing for None
_get_acd_attr_types(resource) ==
    IF resource.resourceType = "AllergyIntolerance" THEN ANNOTATION_TYPE_ALLERGY
    ELSE IF resource.resourceType = "Condition" THEN ANNOTATION_TYPE_CONDITION
    ELSE IF resource.resourceType = "Immunization" THEN ANNOTATION_TYPE_IMMUNIZATION
    ELSE {}

\* variant: the last concept with the uid of the attribute
_get_source_for_attribute_Last(attr, concepts) ==
    LET hits == SelectSeq(concepts, LAMBDA c : c.uid = attr.concept_uid)
    IN  IF hits = <<>> THEN NoneRec ELSE hits[Len(hits)]

\* first concept with the uid of the attribute, NoneRec if there is none
_get_source_for_attribute(attr, concepts) ==
    LET hits == SelectSeq(concepts, LAMBDA c : c.uid = attr.concept_uid)
    IN  IF hits = <<>> THEN NoneRec ELSE Head(hits)

\* [raised, exc, coding, codes_added] threaded through the derived appends
DerivedAcc(coding) == [raised |-> FALSE, exc |-> "", coding |-> coding, codes_added |-> 0]

\* variant: every call of the append counts as one code added
DerivedAppend_CountCalls(acc, system, code, display) ==
    LET count(r) ==
            [raised |-> r.raised, exc |-> r.exc, coding |-> r.coding,
             codes_added |-> acc.codes_added + 1]
    IN  IF acc.raised THEN acc
        ELSE count(append_derived_by_nlp_coding(acc.coding, system, code, display))

\* "codes_added += append_derived_by_nlp_coding(...)" on an accumulator
DerivedAppend(acc, system, code, display) ==
    LET count(r) ==
            [raised |-> r.raised, exc |-> r.exc, coding |-> r.coding,
             codes_added |-> acc.codes_added +
                 append_derived_by_nlp_coding_count(acc.coding, r.coding)]
    IN  IF acc.raised THEN acc
        ELSE count(append_derived_by_nlp_coding(acc.coding, system, code, display))

RECURSIVE DerivedAppendList(_, _, _)
DerivedAppendList(acc, system, codes) ==
    IF codes = <<>> \/ acc.raised THEN acc
    ELSE DerivedAppendList(DerivedAppend(acc, system, Head(codes), None),
                           system, Tail(codes))

\* "codes_added += _append_coding_entries_with_extension(...)"
_append_coding_entries_with_extension(acc, system, csv_code_id) ==
    DerivedAppendList(acc, system, split(csv_code_id, ","))

\* one step of _append_codings_with_nlp_derived_extension for a field
DerivedField(acc, system, field) ==
    IF field # None THEN _append_coding_entries_with_extension(acc, system, field)
    ELSE acc

\* [raised, exc, coding, codes_added]; a None concept is dereferenced
_append_codings_with_nlp_derived_extension(acd_concept, coding) ==
    IF acd_concept = NoneRec
    THEN [raised |-> TRUE, exc |-> AttributeErrorCui, coding |-> coding,
          codes_added |-> 0]
    ELSE LET a0 == IF acd_concept.cui # None
                   THEN DerivedAppend(DerivedAcc(coding), UMLS_URL, acd_concept.cui,
                                      acd_concept.preferred_name)
                   ELSE DerivedAcc(coding)
             a1 == DerivedField(a0, SNOMED_URL, acd_concept.snomed_concept_id)
             a2 == DerivedField(a1, NCI_URL, acd_concept.nci_code)
             a3 == DerivedField(a2, LOINC_URL, acd_concept.loinc_id)
             a4 == DerivedField(a3, MESH_URL, acd_concept.mesh_id)
             a5 == DerivedField(a4, ICD9_URL, acd_concept.icd9_code)
             a6 == DerivedField(a5, ICD10_URL, acd_concept.icd10_code)
         IN  DerivedField(a6, RXNORM_URL, acd_concept.rx_norm_id)

create_reference_path_extension(path) ==
    [url |-> "http://ibm.com/fhir/cdm/StructureDefinition/reference-path",
     valueString |-> path]

create_derived_from_concept_insight_detail_extension(reference_path_ext, nlp_extensions) ==
    [url |-> INSIGHT_DETAIL_URL,
     extension |-> Append(nlp_extensions, reference_path_ext)]

\* builds the insight id and the reference path detail and adds them to meta
append_insight_with_path_expr_to_resource_meta(resource, insight_id, system, fhir_path) ==
    add_insight_to_meta(resource,
        create_insight_id_extension(insight_id, system),
        create_derived_from_concept_insight_detail_extension(
            create_reference_path_extension(fhir_path),
            <<create_nlp_output_extension>>))

\* state threaded through the attribute loop of _add_codeable_concept_insight
\* [raised, exc, resource, id_maker, total]
RECURSIVE InsightLoop(_, _, _)
InsightLoop(st, insight, attrs) ==
    LET after(r, res1, nx) ==
            IF r.raised
            THEN [st EXCEPT !.raised = TRUE, !.exc = r.exc, !.resource = res1]
            ELSE IF r.codes_added > 0
            THEN InsightLoop(
                   [st EXCEPT !.total = @ + r.codes_added,
                              !.id_maker = nx.id_maker,
                              !.resource = append_insight_with_path_expr_to_resource_meta(
                                  res1, nx.value, nlp_config.nlp_system,
                                  insight.fhir_path)],
                   insight, Tail(attrs))
            ELSE InsightLoop([st EXCEPT !.resource = res1], insight, Tail(attrs))
        appended(r) ==
            after(r,
                  [st.resource EXCEPT !.concepts[insight.fhir_path].coding = r.coding],
                  next_id(st.id_maker))
    IN  IF attrs = <<>> \/ st.raised THEN st
        ELSE appended(_append_codings_with_nlp_derived_extension(
                          _get_source_for_attribute(Head(attrs),
                                                    insight.acd_response.concepts),
                          st.resource.concepts[insight.fhir_path].coding))

\* variant: the id generator is started again for every concept insight
_add_codeable_concept_insight_FreshMaker(resource, insight, maker) ==
    LET acd_attr_types == _get_acd_attr_types(resource)
        st0 == [raised |-> FALSE, exc |-> "", resource |-> resource,
                id_maker |-> insight_id_maker(nlp_config.insight_id_start),
                total |-> 0]
    IN  IF acd_attr_types # {} /\ insight.acd_response.attribute_values # <<>>
        THEN InsightLoop(st0, insight,
                 filter_attribute_values(insight.acd_response.attribute_values,
                                         acd_attr_types))
        ELSE st0

\* [raised, exc, resource, id_maker, total] after the call
_add_codeable_concept_insight(resource, insight, maker) ==
    LET acd_attr_types == _get_acd_attr_types(resource)
        st0 == [raised |-> FALSE, exc |-> "", resource |-> resource,
                id_maker |-> maker, total |-> 0]
    IN  IF acd_attr_types # {} /\ insight.acd_response.attribute_values # <<>>
        THEN InsightLoop(st0, insight,
                 filter_attribute_values(insight.acd_response.attribute_values,
                                         acd_attr_types))
        ELSE st0

\* a transaction Bundle with one entry for every BundleEntryDfn
\* [resource, method, url], in the order of the list
create_transaction_bundle(resource_action_list) ==
    [resourceType |-> "Bundle", type |-> "transaction",
     entry |-> [i \in 1..Len(resource_action_list) |->
                  [resource |-> resource_action_list[i].resource,
                   request |-> [method |-> resource_action_list[i].method,
                                url |-> resource_action_list[i].url]]]]

\* variant: a bundle is returned whatever the number of updates
enrich_resource_codeable_concepts_Always(resource, num_updates) ==
    create_transaction_bundle(
        << [resource |-> resource, method |-> "PUT",
            url |-> resource.resourceType \o "/" \o resource.id] >>)

\* what enrich_resource_codeable_concepts returns for the updated resource
\* and the num_updates that the update call returned
enrich_resource_codeable_concepts(resource, num_updates) ==
    IF num_updates > 0
    THEN create_transaction_bundle(
             << [resource |-> resource, method |-> "PUT",
                 url |-> resource.resourceType \o "/" \o resource.id] >>)
    ELSE NoneRec

\* the resources of a derivation result as POST entries; none for None
PostEntries(derived) ==
    IF derived.none THEN <<>>
    ELSE [i \in 1..Len(derived.value) |->
            [resource |-> derived.value[i], method |-> "POST",
             url |-> derived.value[i].resourceType]]

\* variant: the medication statements are entered before the conditions
create_new_resources_from_insights_MedsFirst(conds, med_statements) ==
    IF PostEntries(conds) = <<>> /\ PostEntries(med_statements) = <<>>
    THEN NoneRec
    ELSE create_transaction_bundle(PostEntries(med_statements) \o PostEntries(conds))

\* the bundle built from the conditions and medication statements derived
create_new_resources_from_insights(conds, med_statements) ==
    IF PostEntries(conds) = <<>> /\ PostEntries(med_statements) = <<>>
    THEN NoneRec
    ELSE create_transaction_bundle(PostEntries(conds) \o PostEntries(med_statements))

\* a second run of the derivation call on the same text source, response
\* and configuration: the trackers are locals of the call
DerivationRerun ==
    /\ mode \in {"condition", "medication"}
    /\ status = "returned"
    /\ conditions = NoneRec
    /\ previous_result = NoneRec
    /\ previous_result' = result
    /\ idx' = 0
    /\ tracker' = <<>>
    /\ status' = "running"
    /\ result' = [none |-> TRUE, value |-> <<>>]
    /\ UNCHANGED <<mode, nlp_config, acd_output, exception, conditions, bundle,
                   enrich_vars, coding_vars>>

\* create_new_resources_from_insights: create_conditions_from_insights has
\* returned, create_med_statements_from_insights is called on the same
\* acd_output and nlp_config
DeriveMedStatements ==
    /\ mode = "condition"
    /\ status = "returned"
    /\ conditions' = result
    /\ previous_result' = NoneRec
    /\ mode' = "medication"
    /\ idx' = 0
    /\ tracker' = <<>>
    /\ status' = "running"
    /\ result' = [none |-> TRUE, value |-> <<>>]
    /\ UNCHANGED <<nlp_config, acd_output, exception, bundle, enrich_vars, coding_vars>>

\* create_new_resources_from_insights: both derivations have returned
DeriveReturn ==
    /\ mode = "medication"
    /\ status = "returned"
    /\ conditions # NoneRec
    /\ bundle' = create_new_resources_from_insights(conditions, result)
    /\ status' = "bundled"
    /\ UNCHANGED <<mode, nlp_config, conditions, previous_result, derivation_vars, exception, result,
                   enrich_vars, coding_vars>>

\* enrich_resource_codeable_concepts calls
\* update_codeable_concepts_and_meta_with_insights on fhir_resource
\* with a list of concept insights; a new id maker is made
EnrichCall(insights) ==
    /\ mode = "enrich"
    /\ status \in {"idle", "returned"}
    /\ concept_insights' = insights
    /\ repeat' = (status = "returned" /\ insights = concept_insights)
    /\ call_start' = fhir_resource
    /\ id_maker' = insight_id_maker(nlp_config.insight_id_start)
    /\ num_codes_added' = 0
    /\ pidx' = 0
    /\ calls' = calls + 1
    /\ status' = "running"
    /\ bundle' = NoneRec
    /\ UNCHANGED <<mode, nlp_config, conditions, previous_result, exception, result, fhir_resource, derivation_vars,
                   coding_vars>>

\* the for loop of the call takes the next concept insight
EnrichStep ==
    /\ mode = "enrich"
    /\ status = "running"
    /\ pidx < Len(concept_insights)
    /\ \E r \in { _add_codeable_concept_insight(fhir_resource,
                         concept_insights[pidx + 1], id_maker) } :
           /\ fhir_resource' = r.resource
           /\ id_maker' = r.id_maker
           /\ IF r.raised
              THEN /\ status' = "raised"
                   /\ exception' = r.exc
                   /\ UNCHANGED <<pidx, num_codes_added>>
              ELSE /\ num_codes_added' = num_codes_added + r.total
                   /\ pidx' = pidx + 1
                   /\ UNCHANGED <<status, exception>>
    /\ UNCHANGED <<mode, nlp_config, service_vars, result, concept_insights, calls, call_start,
                   repeat, derivation_vars, coding_vars>>

\* the update call returns num_codes_added and
\* enrich_resource_codeable_concepts returns the bundle or None
EnrichReturn ==
    /\ mode = "enrich"
    /\ status = "running"
    /\ pidx = Len(concept_insights)
    /\ result' = [none |-> FALSE, value |-> num_codes_added]
    /\ bundle' = enrich_resource_codeable_concepts(fhir_resource, num_codes_added)
    /\ status' = "returned"
    /\ UNCHANGED <<mode, nlp_config, conditions, previous_result, exception, derivation_vars, enrich_vars,
                   coding_vars>>

\* values of the enrichment variables while no enrichment is modelled
NoEnrichment ==
    /\ fhir_resource = NoneRec
    /\ concept_insights = <<>>
    /\ pidx = 0
    /\ id_maker = NoneRec
    /\ num_codes_added = 0
    /\ calls = 0
    /\ call_start = NoneRec
    /\ repeat = FALSE

(***************************************************************************)
(* Direct calls of the coding helpers on one codeable concept.             *)
(***************************************************************************)
\* values of the coding helper variables while no helper call is modelled
NoCodingCalls ==
    /\ codeable_concept = NoneRec
    /\ last_call = NoneRec
    /\ ops = 0

\* the coding of codeable_concept before the first helper call
InitialCoding ==
    IF last_call = NoneRec THEN codeable_concept.coding ELSE last_call.initial

\* append_coding(codeable_concept, system, code, display)
AppendCoding(system, code, display) ==
    /\ mode = "coding"
    /\ status # "raised"
    /\ codeable_concept' = [codeable_concept EXCEPT !.coding =
                               append_coding(@, system, code, display)]
    /\ last_call' = [fn |-> "append_coding", system |-> system, code |-> code,
                     display |-> display, before |-> codeable_concept.coding,
                     initial |-> InitialCoding]
    /\ ops' = ops + 1
    /\ status' = "returned"
    /\ UNCHANGED <<mode, nlp_config, service_vars, exception, result, derivation_vars, enrich_vars>>

\* append_derived_by_nlp_coding(codeable_concept, system, code, display)
AppendDerivedByNlpCoding(system, code, display) ==
    /\ mode = "coding"
    /\ status # "raised"
    /\ \E r \in { append_derived_by_nlp_coding(codeable_concept.coding, system,
                                                code, display) } :
           /\ codeable_concept' = [codeable_concept EXCEPT !.coding = r.coding]
           /\ status' = IF r.raised THEN "raised" ELSE "returned"
           /\ exception' = r.exc
    /\ last_call' = [fn |-> "append_derived_by_nlp_coding", system |-> system,
                     code |-> code, display |-> display,
                     before |-> codeable_concept.coding,
                     initial |-> InitialCoding]
    /\ ops' = ops + 1
    /\ UNCHANGED <<mode, nlp_config, service_vars, result, derivation_vars, enrich_vars>>

(***************************************************************************)
(* Inputs.                                                                 *)
(***************************************************************************)
\* insight_id_start of the configurations explored (NlpConfig default: 1)
InsightIdStarts == {1, 4}

NlpConfigs ==
    { [nlp_system |-> "urn:id:COM.IBM.WH.PA.CDP.CDE/1.0.0", insight_id_start |-> s] :
        s \in InsightIdStarts }

\* uids referenced by attributes; uid 3 belongs to no concept or annotation
AttrUids == {1, 2, 3}

\* an attribute has the relevant name and any uid, or another name
AttrChoices(relevant, other) ==
    { <<relevant, uid>> : uid \in AttrUids } \cup { <<other, 1>> }

\* attribute value annotations: the i-th one of a response covers offset i
AttributeLists(relevant, other) ==
    UNION { { [i \in 1..n |-> [name |-> f[i][1], concept_uid |-> f[i][2],
                               begin |-> i, end |-> i + 1,
                               covered_text |-> <<"t">>]] :
                f \in [1..n -> AttrChoices(relevant, other)] } : n \in 0..MaxAttrs }

CUI1 == <<"C", "1">>
CUI2 == <<"C", "2">>

Concept(uid, cui, name, snomed, nci, loinc, mesh, icd9, icd10, rxnorm) ==
    [uid |-> uid, cui |-> cui, preferred_name |-> name,
     snomed_concept_id |-> snomed, nci_code |-> nci, loinc_id |-> loinc,
     mesh_id |-> mesh, icd9_code |-> icd9, icd10_code |-> icd10,
     rx_norm_id |-> rxnorm]

ConceptPool ==
    { Concept(1, CUI1, <<"d">>, <<"7", ",", "8">>, None, None, None, <<>>, None, None),
      Concept(2, CUI1, <<"d">>, <<"8">>, <<"n">>, None, None, None, <<"i">>, None),
      Concept(2, CUI2, <<"m">>, None, None, <<"l">>, <<"h">>, <<"9">>, None, <<"r", ",", "r">>),
      Concept(1, None, None, <<"7">>, None, None, None, None, None, None) }

ConceptLists ==
    UNION { [1..n -> ConceptPool] : n \in 0..MaxConcepts }

\* responses to a note that mentions conditions and medications: the
\* attributes are of both kinds and refer to the uids 1 and 2
NoteResponses ==
    { [attribute_values |->
          [i \in 1..n |-> [name |-> f[i][1], concept_uid |-> f[i][2],
                           begin |-> i, end |-> i + 1, covered_text |-> <<"t">>]],
       concepts |->
          << Concept(1, CUI1, <<"d">>, <<"7", ",", "8">>, None, None, None, <<>>,
                     None, None),
             Concept(2, CUI2, <<"m">>, None, None, <<"l">>, <<"h">>, <<"9">>, None,
                     <<"r", ",", "r">>) >>,
       medication_ind |->
          << [uid |-> 1, cui |-> CUI1, administration |-> <<>>,
              drug |-> [shape |-> "ok", name |->
                          [cui |-> CUI1, drugSurfaceForm |-> <<"x">>,
                           rxNormID |-> <<"1", ",", "2">>]]],
             [uid |-> 2, cui |-> CUI2, administration |-> <<>>,
              drug |-> [shape |-> "ok", name |->
                          [cui |-> CUI2, drugSurfaceForm |-> <<"y">>,
                           rxNormID |-> None]]] >>] :
        n \in 0..MaxAttrs,
        f \in [1..MaxAttrs -> {"CDP-Condition", "CDP-Medication"} \X {1, 2}] }

InitCondition ==
    /\ mode = "condition"
    /\ conditions = NoneRec
    /\ previous_result = NoneRec
    /\ bundle = NoneRec
    /\ nlp_config \in NlpConfigs
    /\ \/ \E attrs \in AttributeLists("CDP-Condition", "CDP-Medication"),
             concepts \in ConceptLists :
             acd_output = [attribute_values |-> attrs, concepts |-> concepts,
                           medication_ind |-> <<>>]
       \/ acd_output \in NoteResponses
    /\ idx = 0
    /\ tracker = <<>>
    /\ status = "running"
    /\ exception = ""
    /\ result = [none |-> TRUE, value |-> <<>>]
    /\ NoEnrichment
    /\ NoCodingCalls

DrugNames ==
    { [cui |-> CUI1, drugSurfaceForm |-> <<"x">>, rxNormID |-> <<"1", ",", "2">>],
      [cui |-> CUI1, drugSurfaceForm |-> <<"x">>, rxNormID |-> None],
      EmptyDrug }

\* annotation.drug: None, [], [{}], [{"name1": []}], [{"name1": [name]}]
MalformedDrugs ==
    { [shape |-> sh, name |-> EmptyDrug] :
        sh \in {"none", "empty", "no_name1", "empty_name1"} }

Drugs == MalformedDrugs \cup { [shape |-> "ok", name |-> n] : n \in DrugNames }

DosageValues ==
    { None,
      <<"1", ",", "0", "0", "0", " ", "m", "g">>,
      <<"5", "0", "0">>,
      <<"a", "b", "c">>,
      <<"a", "b", "c", " ", "m", "g">>,
      <<"5", " ", "B", " ", "C">>,
      <<" ", "m", "g">> }

FrequencyValues ==
    { NoneStr, "Q AM", "Q AM.", "AM", "Q PM", "Q PM.", "PM", "twice daily", "Q AM. " }

\* no administration; every dosage value without and with a frequency;
\* every frequency value beside a dosage value and beside none
Administrations ==
    { <<>> }
    \cup { << [dosageValue |-> d, frequencyValue |-> f] >> :
              d \in DosageValues, f \in {NoneStr, "Q PM"} }
    \cup { << [dosageValue |-> d, frequencyValue |-> f] >> :
              d \in {None, <<"5", "0", "0">>}, f \in FrequencyValues }

MedAnnotation(uid, cui, drug, administration) ==
    [uid |-> uid, cui |-> cui, drug |-> drug, administration |-> administration]

OkDrug == [shape |-> "ok", name |->
              [cui |-> CUI1, drugSurfaceForm |-> <<"x">>, rxNormID |-> <<"1", ",", "2">>]]

\* annotations combined into lists of several
MedAnnotationPool ==
    { MedAnnotation(1, CUI1, OkDrug, <<>>),
      MedAnnotation(2, CUI1, OkDrug,
          << [dosageValue |-> <<"1", ",", "0", "0", "0", " ", "m", "g">>,
              frequencyValue |-> "Q AM."] >>),
      MedAnnotation(2, CUI2, [shape |-> "none", name |-> EmptyDrug],
          << [dosageValue |-> <<"5", "0", "0">>, frequencyValue |-> "twice daily"] >>),
      MedAnnotation(1, CUI2, [shape |-> "ok", name |-> EmptyDrug],
          << [dosageValue |-> <<"a", "b", "c">>, frequencyValue |-> NoneStr] >>),
      MedAnnotation(1, None, OkDrug,
          << [dosageValue |-> None, frequencyValue |-> "PM"] >>) }

\* lists of pool annotations, and single annotations over every drug shape
\* and every administration
MedAnnotationLists ==
    UNION { [1..n -> MedAnnotationPool] : n \in 0..MaxAnnotations }
    \cup { << MedAnnotation(1, CUI1, d, <<>>) >> : d \in Drugs }
    \cup { << MedAnnotation(1, CUI1, OkDrug, a) >> : a \in Administrations }

InitMedication ==
    /\ mode = "medication"
    /\ conditions = NoneRec
    /\ previous_result = NoneRec
    /\ bundle = NoneRec
    /\ nlp_config \in NlpConfigs
    /\ \E attrs \in AttributeLists("CDP-Medication", "CDP-Condition"),
          annotations \in MedAnnotationLists :
          acd_output = [attribute_values |-> attrs, concepts |-> <<>>,
                        medication_ind |-> annotations]
    /\ idx = 0
    /\ tracker = <<>>
    /\ status = "running"
    /\ exception = ""
    /\ result = [none |-> TRUE, value |-> <<>>]
    /\ NoEnrichment
    /\ NoCodingCalls

MaxPairs == 2
MaxCalls == 2

ResourceKinds == {"AllergyIntolerance", "Condition", "Immunization", "Observation"}

\* FHIR paths of the codeable concepts of a resource of the kind
KindPaths(kind) ==
    IF kind = "AllergyIntolerance"
    THEN {"AllergyIntolerance.code", "AllergyIntolerance.reaction[0].manifestation[0]"}
    ELSE IF kind = "Condition" THEN {"Condition.code"}
    ELSE IF kind = "Immunization" THEN {"Immunization.vaccineCode"}
    ELSE {"Observation.code"}

\* a category extension that does not classify as derived by NLP
OtherCategoryExtension ==
    [url |-> INSIGHT_CATEGORY_URL,
     coding |-> << [system |-> CLASSIFICATION_DERIVED_SYSTEM, code |-> "manual",
                    display |-> "manual"] >>,
     text |-> "manual"]

\* coding lists of a codeable concept of the given resource: none; a plain
\* coding of a CUI; a plain coding of a SNOMED code; derived, plain and
\* otherwise categorised codings
InitialCodings ==
    { <<>>,
      << create_coding(UMLS_URL, CUI1, <<"d">>, FALSE) >>,
      << create_coding(SNOMED_URL, <<"8">>, None, FALSE) >>,
      << create_coding(UMLS_URL, CUI1, <<"d">>, TRUE),
         create_coding(SNOMED_URL, <<"7">>, None, TRUE),
         create_coding(SNOMED_URL, <<"7">>, None, FALSE),
         [create_coding(SNOMED_URL, <<"8">>, None, FALSE)
            EXCEPT !.extension = <<OtherCategoryExtension>>] >> }

\* the path of the kind's main codeable concept
MainPath(kind) ==
    IF kind = "AllergyIntolerance" THEN "AllergyIntolerance.code"
    ELSE IF kind = "Condition" THEN "Condition.code"
    ELSE IF kind = "Immunization" THEN "Immunization.vaccineCode"
    ELSE "Observation.code"

GivenResources ==
    UNION { { [resourceType |-> kind, id |-> "r1",
               concepts |-> [p \in KindPaths(kind) |-> [text |-> <<"t">>, coding |-> f[p]]],
               meta_extension |-> <<>>] :
                f \in { g \in [KindPaths(kind) -> InitialCodings] :
                          \A p \in KindPaths(kind) \ {MainPath(kind)} :
                              g[p] # << create_coding(UMLS_URL, CUI1, <<"d">>, FALSE) >> } } :
            kind \in ResourceKinds }

\* an attribute name that is relevant for the kind (for a kind that is not
\* enrichable: relevant for some other kind), and one that is not
RelevantNames(kind) ==
    IF kind = "AllergyIntolerance" THEN <<"CDP-Allergy", "Diagnosis">>
    ELSE IF kind = "Immunization" THEN <<"CDP-Immunization", "CDP-Immunization">>
    ELSE <<"CDP-Condition", "CDP-Condition">>

IrrelevantName(kind) ==
    IF kind = "Condition" THEN "CDP-Medication" ELSE "CDP-Condition"

Attr(name, uid, i) ==
    [name |-> name, concept_uid |-> uid, begin |-> i, end |-> i + 1,
     covered_text |-> <<"t">>]

ConceptX1 == Concept(1, CUI1, <<"d">>, <<"7", ",", "8">>, None, None, None, None, None, None)
ConceptX2 == Concept(2, CUI2, <<"m">>, None, <<"n">>, None, None, <<>>, None, None)
ConceptX3 == Concept(2, CUI1, <<"d">>, <<"8", ",", "9">>, None, <<"l">>, <<"h">>, None, <<"i">>, <<"r">>)

\* NLP responses for the text of a codeable concept of a resource of the kind
EnrichResponses(kind) ==
    LET rel == RelevantNames(kind)
        irr == IrrelevantName(kind)
    IN  << [attribute_values |-> << Attr(rel[1], 1, 1) >>, concepts |-> <<ConceptX1>>],
          [attribute_values |-> << Attr(rel[1], 1, 1), Attr(rel[2], 2, 2) >>,
           concepts |-> <<ConceptX1, ConceptX2>>],
          [attribute_values |-> << Attr(irr, 1, 1), Attr(rel[2], 3, 2), Attr(rel[1], 1, 3) >>,
           concepts |-> <<ConceptX1>>],
          [attribute_values |-> <<>>, concepts |-> <<>>],
          [attribute_values |-> << Attr(rel[2], 2, 1), Attr(rel[1], 2, 2) >>,
           concepts |-> <<ConceptX1, ConceptX3>>] >>

\* every response for the main codeable concept, the single attribute
\* response for the others, in a fixed order
AcdConceptRefs(kind) ==
    [i \in 1..Len(EnrichResponses(kind)) |->
        [fhir_path |-> MainPath(kind), acd_response |-> EnrichResponses(kind)[i]]]
    \o (IF KindPaths(kind) = {MainPath(kind)} THEN <<>>
        ELSE << [fhir_path |-> CHOOSE p \in KindPaths(kind) : p # MainPath(kind),
                 acd_response |-> EnrichResponses(kind)[1]] >>)

\* the lists of up to MaxPairs different concept references, each list in
\* the order of AcdConceptRefs
ConceptInsightLists(kind) ==
    LET refs == AcdConceptRefs(kind)
    IN  UNION { { [i \in 1..n |-> refs[f[i]]] :
                    f \in { g \in [1..n -> 1..Len(refs)] :
                              \A i \in 1..(n - 1) : g[i] < g[i + 1] } } :
                n \in 0..MaxPairs }

InitEnrich ==
    /\ mode = "enrich"
    /\ conditions = NoneRec
    /\ previous_result = NoneRec
    /\ bundle = NoneRec
    /\ nlp_config \in NlpConfigs
    /\ fhir_resource \in GivenResources
    /\ status = "idle"
    /\ exception = ""
    /\ result = [none |-> TRUE, value |-> 0]
    /\ acd_output = NoneRec
    /\ idx = 0
    /\ tracker = <<>>
    /\ concept_insights = <<>>
    /\ pidx = 0
    /\ id_maker = NoneRec
    /\ num_codes_added = 0
    /\ calls = 0
    /\ call_start = NoneRec
    /\ repeat = FALSE
    /\ NoCodingCalls

EnrichCallAny ==
    /\ mode = "enrich"
    /\ calls < MaxCalls
    /\ \E insights \in ConceptInsightLists(fhir_resource.resourceType) :
          EnrichCall(insights)

MaxOps == 3

CodingSystems == {UMLS_URL, SNOMED_URL}
CodingCodes == { <<"7">>, <<"8">> }
CodingDisplays == { None, <<"d">> }

InitCoding ==
    /\ mode = "coding"
    /\ conditions = NoneRec
    /\ previous_result = NoneRec
    /\ bundle = NoneRec
    /\ nlp_config \in NlpConfigs
    /\ nlp_config.insight_id_start = 1
    /\ codeable_concept \in { [text |-> <<"t">>, coding |-> c] :
            c \in {<<>>} \cup InitialCodings }
    /\ last_call = NoneRec
    /\ ops = 0
    /\ status = "idle"
    /\ exception = ""
    /\ result = [none |-> TRUE, value |-> 0]
    /\ acd_output = NoneRec
    /\ idx = 0
    /\ tracker = <<>>
    /\ NoEnrichment

CodingCall ==
    /\ mode = "coding"
    /\ ops < MaxOps
    /\ \E system \in CodingSystems, code \in CodingCodes, display \in CodingDisplays :
          \/ AppendCoding(system, code, display)
          \/ AppendDerivedByNlpCoding(system, code, display)

(***************************************************************************)
(* attribute_source_cui.py.  The container has the properties concepts,    *)
(* symptom_disease_ind and medication_ind, each a list of annotations      *)
(* [uid, cui]; the sources of an attribute are kept as the list of         *)
(* [prop_name, source] in the insertion order of the OrderedDict.          *)
(***************************************************************************)
\* the loop over the candidates of one property: every candidate with the
\* uid is assigned to result[prop_name], a later one over an earlier one
RECURSIVE SourceOfProperty(_, _, _)
SourceOfProperty(candidates, uid, found) ==
    IF candidates = <<>> THEN found
    ELSE SourceOfProperty(Tail(candidates), uid,
             IF Head(candidates).uid = uid
             THEN [none |-> FALSE, value |-> Head(candidates)]
             ELSE found)

_create_attribute_sources(attr, container, source_prop_names) ==
    LET RECURSIVE collect(_, _)
        collect(props, sources) ==
            IF props = <<>> THEN sources
            ELSE collect(Tail(props),
                    IF SourceOfProperty(container[Head(props)], attr.concept_uid,
                                        NoneRec) # NoneRec
                    THEN Append(sources,
                             [prop_name |-> Head(props),
                              source |-> SourceOfProperty(container[Head(props)],
                                             attr.concept_uid, NoneRec).value])
                    ELSE sources)
    IN  [attr |-> attr, sources |-> collect(source_prop_names, <<>>)]

InitSources ==
    /\ mode = "sources"
    /\ conditions = NoneRec
    /\ previous_result = NoneRec
    /\ bundle = NoneRec
    /\ nlp_config \in NlpConfigs
    /\ \E attrs \in UNION { [1..n -> { [name |-> "CDP-Condition", concept_uid |-> u] :
                                          u \in {1, 2} }] : n \in 1..MaxAnnotations },
          concepts \in { <<>>,
                         << [uid |-> 1, cui |-> CUI1] >>,
                         << [uid |-> 1, cui |-> CUI1], [uid |-> 1, cui |-> CUI2] >>,
                         << [uid |-> 2, cui |-> CUI1], [uid |-> 1, cui |-> CUI2],
                            [uid |-> 2, cui |-> CUI2] >> },
          symptoms \in { <<>>, << [uid |-> 1, cui |-> CUI2], [uid |-> 2, cui |-> CUI2] >> },
          medications \in { <<>>, << [uid |-> 2, cui |-> CUI1],
                                     [uid |-> 2, cui |-> CUI2] >> } :
          acd_output = [attribute_values |-> attrs, concepts |-> concepts,
                        symptom_disease_ind |-> symptoms,
                        medication_ind |-> medications]
    /\ idx = 0
    /\ tracker = <<>>
    /\ status = "running"
    /\ exception = ""
    /\ result = [none |-> TRUE, value |-> <<>>]
    /\ NoEnrichment
    /\ NoCodingCalls

\* get_attribute_sources yields the sources of the next attribute for the
\* source_prop_names bound to its name
CreateAttributeSources ==
    /\ mode = "sources"
    /\ status = "running"
    /\ idx < Len(acd_output.attribute_values)
    /\ \E source_prop_names \in
             { <<"concepts">>, <<"medication_ind">>,
               <<"concepts", "symptom_disease_ind">>,
               <<"symptom_disease_ind", "concepts", "medication_ind">> } :
          /\ result' = [none |-> FALSE,
                        value |-> _create_attribute_sources(
                                      acd_output.attribute_values[idx + 1],
                                      acd_output, source_prop_names)]
          /\ last_call' = [fn |-> "_create_attribute_sources",
                           source_prop_names |-> source_prop_names]
    /\ idx' = idx + 1
    /\ UNCHANGED <<mode, nlp_config, service_vars, acd_output, tracker, status,
                   exception, enrich_vars, codeable_concept, ops>>

Init ==
    \/ InitSources
    \/ InitCondition
    \/ InitMedication
    \/ InitEnrich
    \/ InitCoding

Next ==
    \/ ConditionStep
    \/ ConditionReturn
    \/ MedicationStep
    \/ MedicationReturn
    \/ DerivationRerun
    \/ DeriveMedStatements
    \/ DeriveReturn
    \/ EnrichCallAny
    \/ EnrichStep
    \/ EnrichReturn
    \/ CodingCall
    \/ CreateAttributeSources

Spec == Init /\ [][Next]_vars

(***************************************************************************)
(* Vocabulary of the properties.  These definitions read the inputs of a   *)
(* call directly and do not use the operators that model the code.         *)
(***************************************************************************)
InDerivation == mode \in {"condition", "medication"}

RelevantTypes ==
    IF mode = "condition" THEN ANNOTATION_TYPE_CONDITION ELSE ANNOTATION_TYPE_MEDICATION

\* the concepts / medication annotations the attributes are correlated with
Candidates ==
    IF mode = "condition" THEN acd_output.concepts ELSE acd_output.medication_ind

LoopEntered == acd_output.attribute_values # <<>> /\ Candidates # <<>>

Minimum(S) == CHOOSE x \in S : \A y \in S : x <= y

Matches(attr) == { i \in 1..Len(Candidates) : Candidates[i].uid = attr.concept_uid }
Correlates(attr) == Matches(attr) # {}
SourceOf(attr) == Candidates[Minimum(Matches(attr))]

\* positions of the relevant attributes among the first n attributes
RelevantPositions(n) ==
    { i \in 1..n : acd_output.attribute_values[i].name \in RelevantTypes }

CorrelatedPositions(n) ==
    { i \in RelevantPositions(n) : Correlates(acd_output.attribute_values[i]) }

\* positions among the first n of the correlated attributes of a CUI
PositionsOfCui(n, cui) ==
    { i \in CorrelatedPositions(n) : SourceOf(acd_output.attribute_values[i]).cui = cui }

\* the span offset recorded by an insight of a derived resource
InsightBegin(insight) == insight.extension[2].extension[3].extension[1].offset_begin
InsightIdValue(insight) == insight.extension[1].valueIdentifier.value

InsightBegins(resource) ==
    { InsightBegin(resource.meta_extension[k]) : k \in 1..Len(resource.meta_extension) }

(***************************************************************************)
(* C1: when every relevant attribute of the response correlates, a         *)
(* returned derivation call (conditions or medication statements) holds    *)
(* exactly one resource per distinct CUI of those attributes, and the      *)
(* resource of a CUI carries exactly one insight per attribute of that CUI.*)
(***************************************************************************)
C1_OneResourcePerCui ==
    (/\ InDerivation
     /\ status = "returned"
     /\ \A i \in RelevantPositions(Len(acd_output.attribute_values)) :
            Correlates(acd_output.attribute_values[i]))
    => LET n == Len(acd_output.attribute_values)
           cuis == { SourceOf(acd_output.attribute_values[i]).cui :
                        i \in CorrelatedPositions(n) }
           res == result.value
       IN  /\ Len(res) = Cardinality(cuis)
           /\ \A c \in cuis :
                LET mine == { k \in 1..Len(res) :
                                InsightBegins(res[k]) = PositionsOfCui(n, c) }
                IN  /\ Cardinality(mine) = 1
                    /\ \A k \in mine :
                          Len(res[k].meta_extension) = Cardinality(PositionsOfCui(n, c))

\* a call returned two resources, one of which carries two insights
C1_Witness ==
    /\ InDerivation
    /\ status = "returned"
    /\ \A i \in RelevantPositions(Len(acd_output.attribute_values)) :
            Correlates(acd_output.attribute_values[i])
    /\ Len(result.value) = 2
    /\ \E k \in 1..2 : Len(result.value[k].meta_extension) = 2

(***************************************************************************)
(* C2: at every point of a derivation call, the k-th insight of the        *)
(* resource of a CUI is the one of the k-th correlated attribute of that   *)
(* CUI and has the id "insight-(origin + k - 1)", origin being             *)
(* nlp_config.insight_id_start, whatever attributes of other CUIs lie in   *)
(* between.                                                                *)
(***************************************************************************)
\* the k-th smallest element of a set of numbers
RECURSIVE Kth(_, _)
Kth(S, k) == IF k = 1 THEN Minimum(S) ELSE Kth(S \ {Minimum(S)}, k - 1)

C2_InsightIdsPerCui ==
    (InDerivation /\ status # "raised")
    => \A e \in 1..Len(tracker) :
         LET positions == PositionsOfCui(idx, tracker[e].cui)
             insights == tracker[e].fhir_resource.meta_extension
         IN  /\ Len(insights) = Cardinality(positions)
             /\ \A k \in 1..Len(insights) :
                  /\ InsightBegin(insights[k]) = Kth(positions, k)
                  /\ InsightIdValue(insights[k]) =
                        "insight-" \o ToString(nlp_config.insight_id_start + k - 1)

\* two CUIs are tracked, the attributes of the first one lie around one of
\* the second, and the second insight of the first CUI has been attached
C2_Witness ==
    /\ InDerivation
    /\ nlp_config.insight_id_start = 4
    /\ Len(tracker) = 2
    /\ Len(tracker[1].fhir_resource.meta_extension) = 2
    /\ InsightBegins(tracker[1].fhir_resource) = {1, 3}
    /\ InsightBegins(tracker[2].fhir_resource) = {2}
    /\ InsightIdValue(tracker[1].fhir_resource.meta_extension[2]) = "insight-5"

(***************************************************************************)
(* C3: append_derived_by_nlp_coding on a coding list whose only entries    *)
(* with the given (system, code) are plain ones (no extension) appends a   *)
(* new entry tagged derived by NLP: the list grows by exactly one and the  *)
(* entries it had are left in place.                                       *)
(***************************************************************************)
C3_DerivedAppendBesidePlain ==
    (/\ mode = "coding"
     /\ last_call # NoneRec
     /\ last_call.fn = "append_derived_by_nlp_coding"
     /\ \E i \in 1..Len(last_call.before) :
           /\ last_call.before[i].system = last_call.system
           /\ last_call.before[i].code = last_call.code
     /\ \A i \in 1..Len(last_call.before) :
           (/\ last_call.before[i].system = last_call.system
            /\ last_call.before[i].code = last_call.code)
           => last_call.before[i].extension = <<>>)
    => /\ status = "returned"
       /\ Len(codeable_concept.coding) = Len(last_call.before) + 1
       /\ SubSeq(codeable_concept.coding, 1, Len(last_call.before)) = last_call.before
       /\ LET new == codeable_concept.coding[Len(codeable_concept.coding)]
          IN  /\ new.system = last_call.system
              /\ new.code = last_call.code
              /\ \E x \in 1..Len(new.extension) :
                    /\ new.extension[x].url = INSIGHT_CATEGORY_URL
                    /\ new.extension[x].coding[1].code = CLASSIFICATION_DERIVED_CODE

(***************************************************************************)
(* C4: create_med_statements_from_insights does not end at a medication    *)
(* attribute whose concept uid matches no medication annotation: the       *)
(* attribute is skipped and the loop goes on.                              *)
(***************************************************************************)
C4_UncorrelatedMedicationSkipped ==
    (/\ mode = "medication"
     /\ LoopEntered
     /\ idx < Len(acd_output.attribute_values)
     /\ acd_output.attribute_values[idx + 1].name \in ANNOTATION_TYPE_MEDICATION
     /\ ~Correlates(acd_output.attribute_values[idx + 1]))
    => status = "running"

(***************************************************************************)
(* C5: create_conditions_from_insights skips a condition attribute whose   *)
(* concept uid matches no concept.  At every point of the call the insights*)
(* attached are exactly those of the correlated attributes consumed so far,*)
(* the resources tracked are those of their CUIs, every id maker has       *)
(* yielded one id per insight of its resource, the call never raises and   *)
(* it returns only after the last attribute.                               *)
(***************************************************************************)
C5_UncorrelatedConditionSkipped ==
    mode = "condition"
    => /\ status # "raised"
       /\ (status = "returned" /\ LoopEntered)
             => idx = Len(acd_output.attribute_values)
       /\ UNION { InsightBegins(tracker[e].fhir_resource) : e \in 1..Len(tracker) }
             = CorrelatedPositions(idx)
       /\ { tracker[e].cui : e \in 1..Len(tracker) }
             = { SourceOf(acd_output.attribute_values[i]).cui :
                    i \in CorrelatedPositions(idx) }
       /\ \A e \in 1..Len(tracker) :
             tracker[e].id_maker.next_num =
                nlp_config.insight_id_start
                + Len(tracker[e].fhir_resource.meta_extension)

\* the call returned after an uncorrelated condition attribute that was
\* followed by a correlated one, whose insight is attached
C5_Witness ==
    /\ mode = "condition"
    /\ status = "returned"
    /\ \E i, j \in RelevantPositions(Len(acd_output.attribute_values)) :
          /\ i < j
          /\ ~Correlates(acd_output.attribute_values[i])
          /\ Correlates(acd_output.attribute_values[j])
          /\ \E k \in 1..Len(result.value) : j \in InsightBegins(result.value[k])

(***************************************************************************)
(* C6: update_codeable_concepts_and_meta_with_insights does not end at a   *)
(* relevant attribute whose concept uid matches no concept of the NLP      *)
(* response: while the concept insight being processed holds such an       *)
(* attribute, the call has not raised the error of a missing concept.      *)
(***************************************************************************)
C6_UncorrelatedEnrichmentSkipped ==
    (/\ mode = "enrich"
     /\ status \in {"running", "raised"}
     /\ pidx < Len(concept_insights)
     /\ LET response == concept_insights[pidx + 1].acd_response
        IN  \E i \in 1..Len(response.attribute_values) :
               /\ response.attribute_values[i].name
                     \in _get_acd_attr_types(fhir_resource)
               /\ \A c \in 1..Len(response.concepts) :
                     response.concepts[c].uid
                        # response.attribute_values[i].concept_uid)
    => ~(status = "raised" /\ exception = AttributeErrorCui)

(***************************************************************************)
(* C7: create_med_statements_from_insights does not end at a medication    *)
(* attribute whose annotation has the dosage value 'abc': no exception     *)
(* leaves _update_codings_and_administration_info and the loop goes on.    *)
(***************************************************************************)
C7_UnparsableAmountTolerated ==
    (/\ mode = "medication"
     /\ LoopEntered
     /\ idx < Len(acd_output.attribute_values)
     /\ acd_output.attribute_values[idx + 1].name \in ANNOTATION_TYPE_MEDICATION
     /\ Correlates(acd_output.attribute_values[idx + 1])
     /\ LET a == SourceOf(acd_output.attribute_values[idx + 1])
        IN  /\ a.administration # <<>>
            /\ a.administration[1].dosageValue = <<"a", "b", "c">>)
    => status = "running"

(***************************************************************************)
(* Dosages of a medication statement.                                      *)
(***************************************************************************)
\* positions among the first n of the correlated attributes of a CUI whose
\* annotation has a dosage value
DosagePositions(n, cui) ==
    { i \in PositionsOfCui(n, cui) :
        LET a == SourceOf(acd_output.attribute_values[i])
        IN  a.administration # <<>> /\ a.administration[1].dosageValue # None }

\* frequency value of the annotation of the i-th attribute
FrequencyAt(i) ==
    SourceOf(acd_output.attribute_values[i]).administration[1].frequencyValue

RecordedIds(resource) ==
    [k \in 1..Len(resource.meta_extension) |->
        InsightIdValue(resource.meta_extension[k])]

CodingCount(resource) ==
    LET RECURSIVE SumOver(_)
        SumOver(S) ==
            IF S = {} THEN 0
            ELSE LET p == CHOOSE q \in S : TRUE
                 IN  Len(resource.concepts[p].coding) + SumOver(S \ {p})
    IN  SumOver(DOMAIN resource.concepts)

\* coding entries appended to the resource since the call began
CodingsAppended == CodingCount(fhir_resource) - CodingCount(call_start)

InEnrichCall == mode = "enrich" /\ status \in {"running", "raised", "returned"}

C11_InsightIffCodingAppended ==
    InEnrichCall =>
        LET InsightsAttached ==
                Len(fhir_resource.meta_extension) - Len(call_start.meta_extension)
        IN  /\ (InsightsAttached > 0) <=> (CodingsAppended > 0)
            /\ InsightsAttached <= CodingsAppended
            /\ id_maker.next_num = nlp_config.insight_id_start + InsightsAttached

C13_EmptyFieldAddsNoCoding ==
    LET NoEmptyCode(coding) ==
            \A k \in 1..Len(coding) : coding[k].code # None /\ coding[k].code # <<>>
    IN  /\ mode = "condition" =>
              \A i \in 1..Len(tracker) :
                  tracker[i].fhir_resource.code # NoneRec =>
                      NoEmptyCode(tracker[i].fhir_resource.code.coding)
        /\ InEnrichCall =>
              \A p \in DOMAIN fhir_resource.concepts :
                  NoEmptyCode(fhir_resource.concepts[p].coding)

(***************************************************************************)
(* C14: the list returned by a derivation call holds the resources in      *)
(* first-seen order of their CUIs: the k-th resource is the one of the CUI *)
(* whose first correlated attribute, in input order, is the k-th among the *)
(* first correlated attributes of the distinct CUIs.                       *)
(***************************************************************************)
C14_FirstSeenOrder ==
    (InDerivation /\ status = "returned" /\ ~result.none)
    => LET n == Len(acd_output.attribute_values)
           cuis == { SourceOf(acd_output.attribute_values[i]).cui :
                        i \in CorrelatedPositions(n) }
           FirstSeen(c) == Minimum(PositionsOfCui(n, c))
           Rank(c) == Cardinality({ d \in cuis : FirstSeen(d) <= FirstSeen(c) })
       IN  \A k \in 1..Len(result.value) :
              \E c \in cuis :
                 /\ InsightBegins(result.value[k]) = PositionsOfCui(n, c)
                 /\ Rank(c) = k

\* two resources are returned; the CUI seen first is the one of the second
\* candidate and is met again after the other CUI
C14_Witness ==
    /\ InDerivation
    /\ status = "returned"
    /\ ~result.none
    /\ Len(result.value) = 2
    /\ InsightBegins(result.value[1]) = {1, 3}
    /\ InsightBegins(result.value[2]) = {2}
    /\ Candidates[1].cui = tracker[2].cui
    /\ Candidates[1].cui # tracker[1].cui

(***************************************************************************)
(* C15: a derivation call returns the not-found signal None if and only if *)
(* no resource was tracked during the call, that is if no relevant         *)
(* attribute correlated; otherwise it returns the non-empty list of the    *)
(* tracked resources.                                                      *)
(***************************************************************************)
C15_NoneIffNothingTracked ==
    (InDerivation /\ status = "returned")
    => /\ result.none <=> (tracker = <<>>)
       /\ result.none <=>
             (CorrelatedPositions(Len(acd_output.attribute_values)) = {})
       /\ ~result.none =>
             /\ result.value # <<>>
             /\ Len(result.value) = Len(tracker)

\* a call with several relevant attributes returned a list with one resource
C15_Witness ==
    /\ InDerivation
    /\ status = "returned"
    /\ Cardinality(RelevantPositions(Len(acd_output.attribute_values))) >= 2
    /\ ~result.none
    /\ Len(result.value) = 1

(***************************************************************************)
(* C16: every resource returned by a derivation call carries the           *)
(* resource-level derived-by-NLP classification extension exactly once,    *)
(* whatever the number of its insights, and while the attributes of the    *)
(* batch are being processed no tracked resource carries it yet.           *)
(***************************************************************************)
C16_ClassificationExtensionOnce ==
    LET Classified(resource) ==
            { k \in 1..Len(resource.extension) :
                 resource.extension[k] = create_derived_by_nlp_extension }
    IN  InDerivation =>
           /\ \A e \in 1..Len(tracker) : Classified(tracker[e].fhir_resource) = {}
           /\ (status = "returned" /\ ~result.none) =>
                 \A k \in 1..Len(result.value) :
                    /\ Cardinality(Classified(result.value[k])) = 1
                    /\ Len(result.value[k].extension) = 1

\* two resources are returned, one with two insights and one with one
C16_Witness ==
    /\ InDerivation
    /\ status = "returned"
    /\ ~result.none
    /\ Len(result.value) = 2
    /\ \E k \in 1..2 : Len(result.value[k].meta_extension) = 2
    /\ \E k \in 1..2 : Len(result.value[k].meta_extension) = 1
    /\ \A k \in 1..2 : Len(result.value[k].extension) = 1

(***************************************************************************)
(* C17: append_coding is idempotent on the coding set: after a call of     *)
(* append_coding with (system, code), a second call with the same (system, *)
(* code), whatever its display, leaves the size and the content of the     *)
(* coding set unchanged.                                                   *)
(***************************************************************************)
C17_AppendCodingIdempotent ==
    (mode = "coding" /\ last_call # NoneRec /\ last_call.fn = "append_coding")
    => \A display \in CodingDisplays :
          append_coding(codeable_concept.coding, last_call.system, last_call.code,
                        display) = codeable_concept.coding

\* an append_coding call has just added an entry to a set that held others
C17_Witness ==
    /\ mode = "coding"
    /\ last_call # NoneRec
    /\ last_call.fn = "append_coding"
    /\ last_call.before # <<>>
    /\ Len(codeable_concept.coding) = Len(last_call.before) + 1

(***************************************************************************)
(* C18: when the coding set already holds an entry with the (system, code) *)
(* that is tagged derived by NLP, append_coding with the same (system,     *)
(* code) adds no entry: the set is left as it was.                         *)
(***************************************************************************)
C18_PlainAppendAfterDerived ==
    (/\ mode = "coding"
     /\ last_call # NoneRec
     /\ last_call.fn = "append_coding"
     /\ \E i \in 1..Len(last_call.before) :
           /\ last_call.before[i].system = last_call.system
           /\ last_call.before[i].code = last_call.code
           /\ last_call.before[i].extension = <<create_derived_by_nlp_extension>>)
    => codeable_concept.coding = last_call.before

\* append_coding was called on a set whose only entry with the (system,
\* code) is a derived one, appended by an earlier call
C18_Witness ==
    /\ mode = "coding"
    /\ ops >= 2
    /\ last_call # NoneRec
    /\ last_call.fn = "append_coding"
    /\ \E i \in 1..Len(last_call.before) :
           /\ last_call.before[i].system = last_call.system
           /\ last_call.before[i].code = last_call.code
    /\ \A i \in 1..Len(last_call.before) :
           (/\ last_call.before[i].system = last_call.system
            /\ last_call.before[i].code = last_call.code)
           => last_call.before[i].extension = <<create_derived_by_nlp_extension>>
    /\ codeable_concept.coding = last_call.before

(***************************************************************************)
(* C19: the expansion step splits a comma-separated string of n codes on   *)
(* ',' and appends once per code, in order and without trimming  (plain in *)
(* _append_coding_entries, derived in _append_coding_entries_with_         *)
(* extension, which returns the number of entries appended).               *)
(***************************************************************************)
\* the substrings of a csv string between its commas, in order
Substrings(csv) ==
    LET bounds == { i \in 1..Len(csv) : csv[i] = "," } \cup {0, Len(csv) + 1}
    IN  [k \in 1..(Cardinality(bounds) - 1) |->
            SubSeq(csv, Kth(bounds, k) + 1, Kth(bounds, k + 1) - 1)]

\* the codes without those that repeat an earlier one
FirstOccurrences(codes) ==
    LET firsts == { k \in 1..Len(codes) : \A j \in 1..(k - 1) : codes[j] # codes[k] }
    IN  [m \in 1..Cardinality(firsts) |-> codes[Kth(firsts, m)]]

\* for every terminology field of the concepts of the call, with its
\* system, and every coding set of the call that holds none of the codes of
\* the field, the expansion step appends the codes of the field in order:
\* all of them, or (distinct) those that do not repeat an earlier one
ExpansionAppends(distinct) ==
    LET Fields(c) ==
            { f \in { <<SNOMED_URL, c.snomed_concept_id>>, <<NCI_URL, c.nci_code>>,
                      <<LOINC_URL, c.loinc_id>>, <<MESH_URL, c.mesh_id>>,
                      <<ICD9_URL, c.icd9_code>>, <<ICD10_URL, c.icd10_code>>,
                      <<RXNORM_URL, c.rx_norm_id>> } : f[2] # None }
        concepts ==
            IF mode = "condition"
            THEN { acd_output.concepts[i] : i \in 1..Len(acd_output.concepts) }
            ELSE IF mode = "enrich"
            THEN UNION { { concept_insights[i].acd_response.concepts[j] :
                             j \in 1..Len(concept_insights[i].acd_response.concepts) } :
                         i \in 1..Len(concept_insights) }
            ELSE {}
        codings ==
            IF mode = "condition"
            THEN { tracker[e].fhir_resource.code.coding : e \in 1..Len(tracker) }
            ELSE IF mode = "enrich"
            THEN { fhir_resource.concepts[p].coding : p \in DOMAIN fhir_resource.concepts }
            ELSE {}
        Holds(coding, system, codes) ==
            \E k \in 1..Len(coding), i \in 1..Len(codes) :
                coding[k].system = system /\ coding[k].code = codes[i]
        With(coding, system, codes, derived) ==
            coding \o [m \in 1..Len(codes) |->
                          create_coding(system, codes[m], None, derived)]
        Counted(r, coding, system, codes) ==
            /\ ~r.raised
            /\ r.coding = With(coding, system, codes, TRUE)
            /\ r.codes_added = Len(codes)
        Appends(coding, system, csv, codes) ==
            /\ _append_coding_entries(coding, system, csv) =
                   With(coding, system, codes, FALSE)
            /\ Counted(_append_coding_entries_with_extension(
                           DerivedAcc(coding), system, csv),
                       coding, system, codes)
    IN  \A f \in UNION { Fields(c) : c \in concepts } : \A coding \in codings :
            ~Holds(coding, f[1], Substrings(f[2])) =>
                Appends(coding, f[1], f[2],
                        IF distinct THEN FirstOccurrences(Substrings(f[2]))
                        ELSE Substrings(f[2]))

C20_CorrelatorFirstMatch ==
    LET First(attr, cands) ==
            LET hits == { k \in 1..Len(cands) : cands[k].uid = attr.concept_uid }
            IN  IF hits = {} THEN NoneRec ELSE cands[Minimum(hits)]
        Agree(found, attr, cands) ==
            /\ _get_concept_for_attribute(attr, cands) = found
            /\ _get_source_for_attribute(attr, cands) = found
            /\ _get_annotation_for_attribute(attr, cands) = found
        AllAgree(attrs, cands) ==
            \A i \in 1..Len(attrs) : Agree(First(attrs[i], cands), attrs[i], cands)
    IN  /\ InDerivation => AllAgree(acd_output.attribute_values, Candidates)
        /\ mode = "enrich" =>
              \A i \in 1..Len(concept_insights) :
                  AllAgree(concept_insights[i].acd_response.attribute_values,
                           concept_insights[i].acd_response.concepts)

\* the first attribute of a derivation call refers to a uid that two
\* candidates with different CUIs have, and has been processed: the
\* resource tracked is the one of the first of them; another attribute of
\* the call refers to a uid no candidate has
C20_Witness ==
    /\ mode = "condition"
    /\ idx = Len(acd_output.attribute_values)
    /\ Len(tracker) = 1
    /\ \E j, k \in 1..Len(Candidates) :
          /\ j < k
          /\ Candidates[j].uid = acd_output.attribute_values[1].concept_uid
          /\ Candidates[k].uid = acd_output.attribute_values[1].concept_uid
          /\ Candidates[j].cui = tracker[1].cui
          /\ Candidates[k].cui # tracker[1].cui
    /\ \E i \in RelevantPositions(idx) : ~Correlates(acd_output.attribute_values[i])

C23_OtherKindsNotEnriched ==
    (/\ InEnrichCall
     /\ fhir_resource.resourceType \notin {"AllergyIntolerance", "Condition",
                                           "Immunization"})
    => /\ status # "raised"
       /\ num_codes_added = 0
       /\ fhir_resource = call_start
       /\ status = "returned" => (result.value = 0 /\ bundle = NoneRec)

\* a call on an Observation went through two pairs, one of which has an
\* attribute that matches no concept, and returned
C23_Witness ==
    /\ mode = "enrich"
    /\ status = "returned"
    /\ fhir_resource.resourceType = "Observation"
    /\ Len(concept_insights) = 2
    /\ pidx = 2
    /\ concept_insights[1].acd_response.attribute_values # <<>>
    /\ \E a \in 1..Len(concept_insights[2].acd_response.attribute_values) :
          concept_insights[2].acd_response.attribute_values[a].concept_uid = 3
    /\ result.value = 0

(***************************************************************************)
(* C24: add_insight_to_meta only appends.  At every point of an enrichment *)
(* call and of a derivation call the meta.extension of a resource is the   *)
(* list it had when the call began (empty for a resource built by the      *)
(* call), followed by one insight node per id its id maker has yielded,    *)
(* in the order of the calls: the k-th new node holds exactly the id node  *)
(* of the k-th id and a detail node.                                       *)
(***************************************************************************)
C24_MetaOnlyAppended ==
    LET NodesAppended(before, now, maker) ==
            /\ Len(now) = Len(before)
                            + (maker.next_num - nlp_config.insight_id_start)
            /\ SubSeq(now, 1, Len(before)) = before
            /\ \A k \in (Len(before) + 1)..Len(now) :
                  /\ now[k].url = INSIGHT_URL
                  /\ Len(now[k].extension) = 2
                  /\ now[k].extension[1] =
                        create_insight_id_extension(
                            "insight-" \o ToString(nlp_config.insight_id_start
                                                   + k - Len(before) - 1),
                            nlp_config.nlp_system)
                  /\ now[k].extension[2].url = INSIGHT_DETAIL_URL
    IN  /\ InEnrichCall =>
              NodesAppended(call_start.meta_extension,
                            fhir_resource.meta_extension, id_maker)
        /\ InDerivation =>
              \A e \in 1..Len(tracker) :
                 NodesAppended(<<>>, tracker[e].fhir_resource.meta_extension,
                               tracker[e].id_maker)

\* an enrichment call attached two insights behind the two it found
C24_Witness ==
    /\ mode = "enrich"
    /\ status = "returned"
    /\ Len(call_start.meta_extension) = 2
    /\ Len(fhir_resource.meta_extension) = 4
    /\ SubSeq(fhir_resource.meta_extension, 1, 2) = call_start.meta_extension

(***************************************************************************)
(* C25: when create_new_resources_from_insights returns, there is no       *)
(* bundle if neither a Condition nor a MedicationStatement was derived;    *)
(* otherwise the bundle has one entry per derived resource, each with      *)
(* method POST and the type name of its resource as url, the Conditions    *)
(* first and the MedicationStatements after them, each group in the order  *)
(* in which its resources were first seen in the attributes.               *)
(***************************************************************************)
C25_BundleOfDerivedResources ==
    (mode = "medication" /\ status = "bundled")
    => LET Derived(r) == IF r.none THEN <<>> ELSE r.value
           conds == Derived(conditions)
           meds == Derived(result)
           FirstSeen(resource) == Minimum(InsightBegins(resource))
           InFirstSeenOrder(list) ==
               \A k, l \in 1..Len(list) :
                   k < l => FirstSeen(list[k]) < FirstSeen(list[l])
       IN  IF conds = <<>> /\ meds = <<>>
           THEN bundle = NoneRec
           ELSE /\ bundle # NoneRec
                /\ bundle.type = "transaction"
                /\ Len(bundle.entry) = Len(conds) + Len(meds)
                /\ \A k \in 1..Len(conds) :
                      /\ bundle.entry[k].resource = conds[k]
                      /\ conds[k].resourceType = "Condition"
                /\ \A k \in 1..Len(meds) :
                      /\ bundle.entry[Len(conds) + k].resource = meds[k]
                      /\ meds[k].resourceType = "MedicationStatement"
                /\ \A k \in 1..Len(bundle.entry) :
                      bundle.entry[k].request =
                          [method |-> "POST",
                           url |-> bundle.entry[k].resource.resourceType]
                /\ InFirstSeenOrder(conds)
                /\ InFirstSeenOrder(meds)

\* a bundle of two Conditions and one MedicationStatement, the attribute
\* of the MedicationStatement lying before those of the Conditions
C25_Witness ==
    /\ mode = "medication"
    /\ status = "bundled"
    /\ bundle # NoneRec
    /\ Len(bundle.entry) = 3
    /\ acd_output.attribute_values[1].name = "CDP-Medication"
    /\ bundle.entry[3].resource.resourceType = "MedicationStatement"
    /\ bundle.entry[1].resource.resourceType = "Condition"

C27_SplitOnFirstSpaceOnly ==
    (mode = "medication" /\ status # "raised")
    => \A e \in 1..Len(tracker) :
         LET pos == DosagePositions(idx, tracker[e].cui)
             ds == tracker[e].fhir_resource.dosage
             DosageAt(i) ==
                 SourceOf(acd_output.attribute_values[i]).administration[1].dosageValue
             FirstSpace(d) == Minimum({ i \in 1..Len(d) : d[i] = " " })
         IN  \A k \in 1..Len(ds) :
               LET d == DosageAt(Kth(pos, k))
               IN  (HasSpace(d) /\ ds[k].doseAndRate # <<>>)
                   => /\ ds[k].doseAndRate[1].doseQuantity.value =
                           float(RemoveCommas(SubSeq(d, 1, FirstSpace(d) - 1))).value
                      /\ ds[k].doseAndRate[1].doseQuantity.unit =
                           SubSeq(d, FirstSpace(d) + 1, Len(d))

(***************************************************************************)
(* C28: when several candidates of one source property (concepts,          *)
(* symptom_disease_ind, medication_ind) carry the uid referenced by the    *)
(* attribute, _create_attribute_sources records for that property the      *)
(* first such candidate in iteration order.                                *)
(***************************************************************************)
C28_FirstCandidateRecorded ==
    (mode = "sources" /\ last_call # NoneRec)
    => LET attr == result.value.attr
           sources == result.value.sources
       IN  \A k \in 1..Len(sources) :
              LET candidates == acd_output[sources[k].prop_name]
                  matching == { i \in 1..Len(candidates) :
                                  candidates[i].uid = attr.concept_uid }
              IN  /\ matching # {}
                  /\ sources[k].source = candidates[Minimum(matching)]

(***************************************************************************)
(* C29: starting from an empty coding set, after any sequence of           *)
(* append_coding and append_derived_by_nlp_coding calls that complete,     *)
(* every (system, code) pair occurs in at most two entries of the set, of  *)
(* which at most one is plain and at most one is tagged derived by NLP,    *)
(* and the last call has left the entries it found in place and in order.  *)
(***************************************************************************)
C29_AtMostOnePlainOneDerived ==
    (/\ mode = "coding"
     /\ last_call # NoneRec
     /\ last_call.initial = <<>>
     /\ status # "raised")
    => LET coding == codeable_concept.coding
           Entries(system, code) ==
               { i \in 1..Len(coding) :
                   coding[i].system = system /\ coding[i].code = code }
           Plain(S) == { i \in S : coding[i].extension = <<>> }
           Derived(S) ==
               { i \in S : coding[i].extension = <<create_derived_by_nlp_extension>> }
       IN  /\ \A i \in 1..Len(coding) :
                LET mine == Entries(coding[i].system, coding[i].code)
                IN  /\ Cardinality(mine) <= 2
                    /\ Cardinality(Plain(mine)) <= 1
                    /\ Cardinality(Derived(mine)) <= 1
           /\ Len(coding) >= Len(last_call.before)
           /\ SubSeq(coding, 1, Len(last_call.before)) = last_call.before

\* three calls from the empty set: the set holds a plain and a derived
\* entry and the third call, a derived append of a pair already there as
\* derived, added nothing
C29_Witness ==
    /\ mode = "coding"
    /\ last_call # NoneRec
    /\ last_call.initial = <<>>
    /\ status = "returned"
    /\ ops = 3
    /\ last_call.fn = "append_derived_by_nlp_coding"
    /\ Len(codeable_concept.coding) = 2
    /\ codeable_concept.coding = last_call.before
    /\ \E i, j \in 1..2 : /\ codeable_concept.coding[i].extension = <<>>
                          /\ codeable_concept.coding[j].extension # <<>>

(***************************************************************************)
(* C30: in create_med_statements_from_insights one dosage entry is         *)
(* appended per processed attribute whose annotation carries a dosage      *)
(* value: once an attribute has been processed, the MedicationStatement of *)
(* each CUI has as many dosage entries as attributes of that CUI were      *)
(* processed whose annotation has a dosage value, also when the amount of  *)
(* the dosage value could not be built into a dose-and-rate entry.  An     *)
(* attribute at which the call raised counts as processed.                 *)
(***************************************************************************)
C30_OneDosagePerDosageAttribute ==
    mode = "medication"
    => LET processed == IF status = "raised" THEN idx + 1 ELSE idx
           cuis == { SourceOf(acd_output.attribute_values[i]).cui :
                        i \in CorrelatedPositions(processed) }
       IN  \A cui \in cuis :
              DosagePositions(processed, cui) # {}
              => \E e \in 1..Len(tracker) :
                    /\ tracker[e].cui = cui
                    /\ Len(tracker[e].fhir_resource.dosage) =
                          Cardinality(DosagePositions(processed, cui))

====
